---- MODULE Spec2Model ----
(***************************************************************************)
(* camino-fs: the lazy directory walker (Ls, TryLsIter) and the recursive *)
(* copy (Utf8PathExt::cp) over a small file system.                        *)
(*                                                                         *)
(* A path is a sequence of components; an absolute path starts with the    *)
(* root component "/".  The file system maps absolute paths to nodes.      *)
(***************************************************************************)
EXTENDS Integers, Sequences, FiniteSets, TLC

\* ------------------------------------------------------------------ bounds
\* largest number of entries beneath the base directory
MaxEntries == 3
\* pulls go on until this many pulls have returned something else than a path
MaxEnds == 2
\* longest file name given to extensions() and all_extensions()
MaxName == 4

\* ------------------------------------------------------------------- paths
Root == <<"/">>
Base == <<"/", "b">>
Dest == <<"/", "d">>

\* candidate entries beneath a root, as relative paths
SrcRel == { <<"x">>, <<"y">>, <<"x", "x">>, <<"x", "y">>, <<"x", "x", "x">> }
Names == {"x", "y"}

IsAbsolute(p) == Len(p) > 0 /\ p[1] = "/"

IsPrefix(pre, p) == Len(pre) <= Len(p) /\ SubSeq(p, 1, Len(pre)) = pre

\* Utf8Path::join: an absolute argument replaces the receiver
join(a, b) == IF IsAbsolute(b) THEN b ELSE a \o b

\* Utf8Path::strip_prefix: Err when base is not a prefix of p
strip_prefix(p, base) ==
    IF IsPrefix(base, p)
    THEN [ok |-> TRUE, path |-> SubSeq(p, Len(base) + 1, Len(p))]
    ELSE [ok |-> FALSE, path |-> <<>>]

Parent(p) == SubSeq(p, 1, Len(p) - 1)

SrcAbs == { Base \o r : r \in SrcRel }
DestAbs == { Dest \o r : r \in SrcRel }
AllPaths == {Root, Base, Dest} \cup SrcAbs \cup DestAbs

\* ------------------------------------------------------------- file system
NoNode == [kind |-> "none", data |-> 0]
DirNode == [kind |-> "dir", data |-> 0]
FileNode(d) == [kind |-> "file", data |-> d]

\* the content of the source file at relative path r (distinct per file)
DataOf(r) == 2 * Len(r) + (IF r = <<>> THEN 0 ELSE IF r[Len(r)] = "x" THEN 0 ELSE 1)

NodeOf(k, r) == IF k = "dir" THEN DirNode ELSE IF k = "file" THEN FileNode(DataOf(r)) ELSE NoNode

Kinds == {"none", "file", "dir"}

Present(t) == { r \in SrcRel : t[r] # "none" }

\* the trees beneath the base: an entry exists only inside a directory
Trees == { t \in [SrcRel -> Kinds] :
             /\ \A r \in SrcRel : (Len(r) > 1 /\ t[r] # "none") => t[Parent(r)] = "dir"
             /\ Cardinality(Present(t)) <= MaxEntries }

EmptyTree == [r \in SrcRel |-> "none"]

MkFs(bk, t, dk) ==
    [p \in AllPaths |->
        IF p = Root THEN DirNode
        ELSE IF p = Base THEN NodeOf(bk, <<>>)
        ELSE IF p = Dest THEN NodeOf(dk, <<>>)
        ELSE IF p \in SrcAbs THEN NodeOf(t[strip_prefix(p, Base).path], strip_prefix(p, Base).path)
        ELSE NoNode]

\* a file already at the destination, with content no source file has
StaleFile == FileNode(1)

\* the destination may already hold a file named x
WithDestEntry(f, dx) == IF dx = "file" THEN [f EXCEPT ![Dest \o <<"x">>] = StaleFile] ELSE f

NoFault == [kind |-> "none", at |-> <<>>]

\* the one operation of the environment that fails, if any: the listing of a
\* directory or the read of one directory entry ...
ReadFaults(f) ==
    {NoFault}
    \cup { [kind |-> "list", at |-> p] : p \in { q \in {Base} \cup SrcAbs : f[q].kind = "dir" } }
    \cup { [kind |-> "entry", at |-> p] : p \in { q \in SrcAbs : f[q].kind # "none" } }

\* ... or a write at the destination
WriteFaults(f) ==
    { [kind |-> "write", at |-> p] :
        p \in {Dest} \cup { Dest \o r : r \in { s \in SrcRel : f[Base \o s].kind # "none" } } }

\* ... or the removal of the target or of one of its immediate entries
RemoveFaults(f) ==
    { [kind |-> "remove", at |-> p] :
        p \in { q \in {Base} \cup SrcAbs : f[q].kind # "none" /\ Len(q) <= Len(Base) + 1 } }

VARIABLES
    fs,        \* the file system: absolute path -> node
    cwd,       \* the current working directory of the process
    rev,       \* the order in which the OS lists a directory
    fault,     \* the failing operation of the environment
    ls,        \* the Ls value (ls.rs:11-18)
    it,        \* the TryLsIter made from it (ls.rs:114-118), when made
    hist,      \* the outcomes of the pulls so far
    calls,     \* the invocations of the recursion predicate so far
    cpPc,      \* position of cp: "idle" (not called), "start", "loop", "done"
    cpEntries, \* cp's work queue (lib.rs:143)
    cpResult,  \* what cp returned: "none" (not yet), "ok", "err", "panic"
    cpLog,     \* the operations cp has performed and whether each succeeded
    cpRun,     \* how many times cp has been called
    fs0,       \* the file system at the start
    rmOp,      \* the removal the program calls: "none", "rm", "rm_matching"
    rmPc,      \* position of the removal: "idle", "start", "loop", "done"
    rmPred,    \* the predicate given to rm_matching: the paths it accepts
    rmLs,      \* the walker that rm_matching iterates (lib.rs:179)
    rmResult,  \* what the removal returned: "none" (not yet), "ok", "err"
    extPc,     \* "start" when the program asks for the extensions of extPath
    extPath,   \* the path asked about: its components, each a string of characters
    extOut,    \* what extensions() returned, once called
    extAll     \* what all_extensions() returned, once called

vars == <<fs, cwd, rev, fault, ls, it, hist, calls, cpPc, cpEntries, cpResult, cpLog, cpRun,
          fs0, rmOp, rmPc, rmPred, rmLs, rmResult, extPc, extPath, extOut, extAll>>

\* a relative path is resolved against the current working directory
Resolve(p) == IF IsAbsolute(p) THEN p ELSE cwd \o p

NodeIn(f, p) == IF Resolve(p) \in DOMAIN f THEN f[Resolve(p)] ELSE NoNode

Node(p) == NodeIn(fs, p)

is_dir(p) == Node(p).kind = "dir"
is_file(p) == Node(p).kind = "file"
exists(p) == Node(p).kind # "none"

ListOrder == IF rev THEN <<"y", "x">> ELSE <<"x", "y">>

RECURSIVE DirItems(_, _)
DirItems(dir, i) ==
    IF i > Len(ListOrder) THEN <<>>
    ELSE LET p == dir \o <<ListOrder[i]>>
         IN (IF exists(p)
             THEN << [ok |-> fault # [kind |-> "entry", at |-> p], path |-> p] >>
             ELSE <<>>) \o DirItems(dir, i + 1)

\* Utf8Path::read_dir_utf8: Err, or the entries of the directory in the
\* order of the OS, each of them a path (the directory joined with the
\* entry's name) or an error
read_dir_utf8(dir) ==
    IF ~is_dir(dir) \/ fault = [kind |-> "list", at |-> Resolve(dir)]
    THEN [ok |-> FALSE, items |-> <<>>]
    ELSE [ok |-> TRUE, items |-> DirItems(dir, 1)]

\* ------------------------------------------------------------------ walker
\* a recursion predicate is the set of relative paths it accepts
RelPaths == {<<>>} \cup SrcRel
Never == {}
Always == RelPaths \cup AllPaths
OnlyX == { <<"x">> }

\* Ls::new
Ls_new(path) ==
    [recurse_if_fn |-> Never, relative_paths |-> FALSE, path |-> path,
     filter |-> "All", initialized |-> FALSE, entries |-> <<>>]

\* TryLsIter::new
TryLsIter_new == [made |-> TRUE, initialized |-> FALSE, entries |-> <<>>]

NotMade == [made |-> FALSE, initialized |-> FALSE, entries |-> <<>>]

\* outcomes of a pull; entry is the dequeued path the outcome came from
None == [tag |-> "none", path |-> <<>>, entry |-> <<>>]
Err == [tag |-> "err", path |-> <<>>, entry |-> <<>>]
Panic == [tag |-> "panic", path |-> <<>>, entry |-> <<>>]
Some(p, e) == [tag |-> "ok", path |-> p, entry |-> e]

RECURSIVE OkPaths(_)

\* a slip in the listing: the entries are queued by file name, not by path
OkPaths_names(items) ==
    LET read == SelectSeq(items, LAMBDA e : e.ok)
    IN [i \in 1..Len(read) |-> << read[i].path[Len(read[i].path)] >>]

OkPaths(items) ==
    IF items = <<>> THEN <<>>
    ELSE (IF Head(items).ok THEN <<Head(items).path>> ELSE <<>>) \o OkPaths(Tail(items))

\* a slip in Ls::add_dir_entries: the listing replaces the queue
Ls_add_dir_entries_replace(entries, dir) ==
    LET rd == read_dir_utf8(dir)
    IN IF ~rd.ok THEN entries ELSE OkPaths(rd.items)

\* a slip in Ls::add_dir_entries: a failed listing drops the queue
Ls_add_dir_entries_abort(entries, dir) ==
    LET rd == read_dir_utf8(dir)
    IN IF ~rd.ok THEN <<>> ELSE entries \o OkPaths(rd.items)

\* a slip in Ls::add_dir_entries: the listing goes in front of the queue
Ls_add_dir_entries_front(entries, dir) ==
    LET rd == read_dir_utf8(dir)
    IN IF ~rd.ok THEN entries ELSE OkPaths(rd.items) \o entries

\* Ls::add_dir_entries: a failed listing adds nothing, a failed entry is skipped
Ls_add_dir_entries(entries, dir) ==
    LET rd == read_dir_utf8(dir)
    IN IF ~rd.ok THEN entries ELSE entries \o OkPaths(rd.items)

\* a slip in line 97: every directory is expanded
Ls_expand_always(l, path, rel_path) ==
    [calls |-> IF is_dir(path) THEN { [arg |-> rel_path, entry |-> path] } ELSE {},
     expand |-> is_dir(path)]

\* a slip in line 97: only an entry that passes the filter is expanded
Ls_expand_filtered(l, path, rel_path) ==
    [calls |-> IF is_dir(path) THEN { [arg |-> rel_path, entry |-> path] } ELSE {},
     expand |-> /\ is_dir(path)
                /\ rel_path \in l.recurse_if_fn
                /\ \/ l.filter = "All"
                   \/ l.filter = "Files" /\ is_file(path)
                   \/ l.filter = "Dirs" /\ is_dir(path)]

\* a slip in line 97: the predicate is asked before the directory test
Ls_expand_unguarded(l, path, rel_path) ==
    [calls |-> { [arg |-> rel_path, entry |-> path] },
     expand |-> rel_path \in l.recurse_if_fn /\ is_dir(path)]

\* Ls::next, line 97: the predicate is asked only about a directory, with
\* the path relative to the base
Ls_expand(l, path, rel_path) ==
    [calls |-> IF is_dir(path) THEN { [arg |-> rel_path, entry |-> path] } ELSE {},
     expand |-> is_dir(path) /\ rel_path \in l.recurse_if_fn]

\* a slip in lines 100-102: the file name instead of the stripped path
Ls_path_form_name(l, path, rel_path) ==
    IF l.relative_paths THEN <<path[Len(path)]>> ELSE path

\* Ls::next, lines 100-102
Ls_path_form(l, path, rel_path) == IF l.relative_paths THEN rel_path ELSE path

\* Ls::next, lines 103-108: the test is made on the converted path
Ls_filter(l, path) ==
    \/ l.filter = "All"
    \/ l.filter = "Files" /\ is_file(path)
    \/ l.filter = "Dirs" /\ is_dir(path)

\* Ls::next, lines 94-110: the while-let loop
RECURSIVE Ls_loop(_, _, _)
Ls_loop(l, entries, cs) ==
    IF entries = <<>> THEN [entries |-> <<>>, item |-> None, calls |-> cs]
    ELSE LET path == Head(entries)
             sp == strip_prefix(path, l.path)
         IN IF ~sp.ok THEN [entries |-> Tail(entries), item |-> Panic, calls |-> cs]
            ELSE LET g == Ls_expand(l, path, sp.path)
                     q == IF g.expand THEN Ls_add_dir_entries(Tail(entries), path)
                          ELSE Tail(entries)
                     out == Ls_path_form(l, path, sp.path)
                 IN IF Ls_filter(l, out)
                    THEN [entries |-> q, item |-> Some(out, path), calls |-> cs \cup g.calls]
                    ELSE Ls_loop(l, q, cs \cup g.calls)

\* impl Iterator for Ls: next
Ls_next(l) ==
    LET e0 == IF ~l.initialized THEN Ls_add_dir_entries(l.entries, l.path) ELSE l.entries
        r == Ls_loop(l, e0, {})
    IN [ls |-> [l EXCEPT !.initialized = TRUE, !.entries = r.entries],
        item |-> r.item, calls |-> r.calls]

\* Iterator::collect on Ls
RECURSIVE Ls_collect(_)
Ls_collect(l) ==
    LET r == Ls_next(l)
    IN IF r.item.tag = "ok" THEN <<r.item.path>> \o Ls_collect(r.ls) ELSE <<>>

RECURSIVE PushUntilErr(_, _)
PushUntilErr(entries, items) ==
    IF items = <<>> THEN [ok |-> TRUE, entries |-> entries]
    ELSE IF ~Head(items).ok THEN [ok |-> FALSE, entries |-> entries]
    ELSE PushUntilErr(Append(entries, Head(items).path), Tail(items))

\* TryLsIter::add_dir_entries: the entries read before a failure stay queued
TryLsIter_add_dir_entries(entries, dir) ==
    LET rd == read_dir_utf8(dir)
    IN IF ~rd.ok THEN [ok |-> FALSE, entries |-> entries]
       ELSE PushUntilErr(entries, rd.items)

\* TryLsIter::try_next_unfiltered, line 144
Try_expand(l, path, rel_path) ==
    [calls |-> IF is_dir(path) THEN { [arg |-> rel_path, entry |-> path] } ELSE {},
     expand |-> is_dir(path) /\ rel_path \in l.recurse_if_fn]

\* TryLsIter::try_next_unfiltered, lines 147-149
Try_path_form(l, path, rel_path) == IF l.relative_paths THEN rel_path ELSE path

\* TryLsIter::try_next_unfiltered
try_next_unfiltered(l, t) ==
    LET init == IF ~t.initialized THEN TryLsIter_add_dir_entries(t.entries, l.path)
                ELSE [ok |-> TRUE, entries |-> t.entries]
    IN IF ~init.ok
       THEN [it |-> [t EXCEPT !.entries = init.entries], item |-> Err, calls |-> {}]
       ELSE IF init.entries = <<>>
       THEN [it |-> [t EXCEPT !.initialized = TRUE, !.entries = <<>>], item |-> None, calls |-> {}]
       ELSE LET path == Head(init.entries)
                sp == strip_prefix(path, l.path)
                t1 == [t EXCEPT !.initialized = TRUE, !.entries = Tail(init.entries)]
            IN IF ~sp.ok THEN [it |-> t1, item |-> Panic, calls |-> {}]
               ELSE LET g == Try_expand(l, path, sp.path)
                        a == IF g.expand THEN TryLsIter_add_dir_entries(t1.entries, path)
                             ELSE [ok |-> TRUE, entries |-> t1.entries]
                        t2 == [t1 EXCEPT !.entries = a.entries]
                    IN IF ~a.ok THEN [it |-> t2, item |-> Err, calls |-> g.calls]
                       ELSE [it |-> t2, item |-> Some(Try_path_form(l, path, sp.path), path),
                             calls |-> g.calls]

\* impl Iterator for TryLsIter: next, lines 161-166: the filter arm
Try_filter(l, item) ==
    IF \/ l.filter = "All"
       \/ l.filter = "Files" /\ is_file(item.path)
       \/ l.filter = "Dirs" /\ is_dir(item.path)
    THEN item
    ELSE None

\* impl Iterator for TryLsIter: next
TryLsIter_next(l, t) ==
    LET r == try_next_unfiltered(l, t)
    IN [it |-> r.it, calls |-> r.calls,
        item |-> IF r.item.tag = "ok" THEN Try_filter(l, r.item) ELSE r.item]

\* ---------------------------------------------------------------------- cp
WriteFault(p) == fault = [kind |-> "write", at |-> Resolve(p)]

\* fs::create_dir
fs_create_dir(f, p) ==
    IF \/ NodeIn(f, p).kind # "none"
       \/ NodeIn(f, Parent(Resolve(p))).kind # "dir"
       \/ Resolve(p) \notin DOMAIN f
       \/ WriteFault(p)
    THEN [ok |-> FALSE, fs |-> f]
    ELSE [ok |-> TRUE, fs |-> [f EXCEPT ![Resolve(p)] = DirNode]]

\* fs::create_dir_all
RECURSIVE fs_create_dir_all(_, _)
fs_create_dir_all(f, p) ==
    IF NodeIn(f, p).kind = "dir" THEN [ok |-> TRUE, fs |-> f]
    ELSE IF NodeIn(f, p).kind = "file" \/ Len(Resolve(p)) <= 1 THEN [ok |-> FALSE, fs |-> f]
    ELSE LET up == fs_create_dir_all(f, Parent(Resolve(p)))
         IN IF ~up.ok THEN up ELSE fs_create_dir(up.fs, p)

\* fs::copy: the source must be a file, the target's parent a directory
fs_copy(f, from, to) ==
    IF \/ NodeIn(f, from).kind # "file"
       \/ NodeIn(f, Parent(Resolve(to))).kind # "dir"
       \/ NodeIn(f, to).kind = "dir"
       \/ Resolve(to) \notin DOMAIN f
       \/ WriteFault(to)
    THEN [ok |-> FALSE, fs |-> f]
    ELSE [ok |-> TRUE, fs |-> [f EXCEPT ![Resolve(to)] = FileNode(NodeIn(f, from).data)]]

\* Utf8PathExt::mkdir
mkdir(f, p) == IF NodeIn(f, p).kind = "none" THEN fs_create_dir(f, p) ELSE [ok |-> TRUE, fs |-> f]

\* Utf8PathExt::mkdirs
mkdirs(f, p) == fs_create_dir_all(f, p)

\* Utf8PathExt::assert_exists
assert_exists(p) == exists(p)

\* Utf8PathExt::ls
ls_of(p) == Ls_new(p)

\* whether the listing of dir, as cp's walker performs it, went through
ListedOk(dir) ==
    LET rd == read_dir_utf8(dir)
    IN rd.ok /\ \A i \in 1..Len(rd.items) : rd.items[i].ok

LogOf(op, p, ok) == [op |-> op, path |-> p, ok |-> ok]

\* cp, lines 135-143 and 156-158: up to the first pop_front
cp_start(self, dest) ==
    IF ~assert_exists(self)
    THEN [fs |-> fs, entries |-> <<>>, pc |-> "done", result |-> "err",
          log |-> << LogOf("assert_exists", self, FALSE) >>]
    ELSE IF is_dir(self)
    THEN LET m == mkdirs(fs, dest)
             es == Ls_collect(ls_of(self))
         IN IF ~m.ok
            THEN [fs |-> m.fs, entries |-> <<>>, pc |-> "done", result |-> "err",
                  log |-> << LogOf("mkdirs", dest, FALSE) >>]
            ELSE [fs |-> m.fs, entries |-> es,
                  pc |-> IF es = <<>> THEN "done" ELSE "loop",
                  result |-> IF es = <<>> THEN "ok" ELSE "none",
                  log |-> << LogOf("mkdirs", dest, TRUE), LogOf("list", self, ListedOk(self)) >>]
    ELSE LET c == fs_copy(fs, self, dest)
         IN [fs |-> c.fs, entries |-> <<>>, pc |-> "done",
             result |-> IF c.ok THEN "ok" ELSE "err",
             log |-> << LogOf("copy", dest, c.ok) >>]

\* cp, lines 145-155: one iteration of the loop, and line 159 when the
\* queue is empty after it
cp_iter(self, dest, entries) ==
    LET src_path == Head(entries)
        sp == strip_prefix(src_path, self)
        dest_path == join(dest, sp.path)
    IN IF ~sp.ok
       THEN [fs |-> fs, entries |-> Tail(entries), pc |-> "done", result |-> "panic", log |-> <<>>]
       ELSE IF is_dir(src_path)
       THEN LET es == Tail(entries) \o Ls_collect(ls_of(src_path))
                m == mkdir(fs, dest_path)
                lg == << LogOf("list", src_path, ListedOk(src_path)), LogOf("mkdir", dest_path, m.ok) >>
            IN IF ~m.ok
               THEN [fs |-> m.fs, entries |-> es, pc |-> "done", result |-> "err", log |-> lg]
               ELSE [fs |-> m.fs, entries |-> es,
                     pc |-> IF es = <<>> THEN "done" ELSE "loop",
                     result |-> IF es = <<>> THEN "ok" ELSE "none", log |-> lg]
       ELSE LET c == fs_copy(fs, src_path, dest_path)
                lg == << LogOf("copy", dest_path, c.ok) >>
            IN IF ~c.ok
               THEN [fs |-> c.fs, entries |-> Tail(entries), pc |-> "done", result |-> "err", log |-> lg]
               ELSE [fs |-> c.fs, entries |-> Tail(entries),
                     pc |-> IF Tail(entries) = <<>> THEN "done" ELSE "loop",
                     result |-> IF Tail(entries) = <<>> THEN "ok" ELSE "none", log |-> lg]

\* ------------------------------------------------------- rm, rm_matching
RemoveFault(p) == fault = [kind |-> "remove", at |-> Resolve(p)]

\* fs::remove_dir_all: the directory goes with everything beneath it
fs_remove_dir_all(f, p) ==
    IF NodeIn(f, p).kind # "dir" \/ RemoveFault(p)
    THEN [ok |-> FALSE, fs |-> f]
    ELSE [ok |-> TRUE,
          fs |-> [q \in DOMAIN f |-> IF IsPrefix(Resolve(p), q) THEN NoNode ELSE f[q]]]

\* fs::remove_file
fs_remove_file(f, p) ==
    IF NodeIn(f, p).kind # "file" \/ RemoveFault(p)
    THEN [ok |-> FALSE, fs |-> f]
    ELSE [ok |-> TRUE, fs |-> [f EXCEPT ![Resolve(p)] = NoNode]]

\* a slip in rm: no test that the path exists
rm_unchecked(f, p) ==
    IF NodeIn(f, p).kind = "dir" THEN fs_remove_dir_all(f, p) ELSE fs_remove_file(f, p)

\* Utf8PathExt::rm
rm(f, p) ==
    IF NodeIn(f, p).kind = "none" THEN [ok |-> TRUE, fs |-> f]
    ELSE IF NodeIn(f, p).kind = "dir" THEN fs_remove_dir_all(f, p)
    ELSE fs_remove_file(f, p)

\* a slip in line 179: the walker descends into every directory
rm_matching_ls_recurse(self) == [ls_of(self) EXCEPT !.recurse_if_fn = Always]

\* rm_matching, line 179: self.ls()
rm_matching_ls(self) == ls_of(self)

\* Iterator::filter on Ls: the next yielded path the predicate accepts
RECURSIVE filter_skip(_, _)
filter_skip(r, predicate) ==
    IF r.item.tag = "ok" /\ r.item.path \notin predicate
    THEN filter_skip(Ls_next(r.ls), predicate)
    ELSE r

filter_next(l, predicate) == filter_skip(Ls_next(l), predicate)

\* rm_matching, lines 178 and 182-185: up to the loop
rm_matching_start(self, predicate) ==
    IF is_dir(self)
    THEN [fs |-> fs, ls |-> rm_matching_ls(self), pc |-> "loop", result |-> "none"]
    ELSE IF self \in predicate
    THEN LET r == rm(fs, self)
         IN [fs |-> r.fs, ls |-> rm_matching_ls(self), pc |-> "done",
             result |-> IF r.ok THEN "ok" ELSE "err"]
    ELSE [fs |-> fs, ls |-> rm_matching_ls(self), pc |-> "done", result |-> "ok"]

\* a slip in lines 179-181: a failed removal is reported only after the
\* other matching entries have been removed
rm_matching_body_late(n, r, result) ==
    IF n.item.tag # "ok"
    THEN [fs |-> fs, ls |-> n.ls, pc |-> "done",
          result |-> IF result = "err" THEN "err" ELSE "ok"]
    ELSE [fs |-> r.fs, ls |-> n.ls, pc |-> "loop",
          result |-> IF r.ok THEN result ELSE "err"]

\* rm_matching, lines 180-181 and 185: the body of the for loop, for the
\* item n the filtered walker gave and the outcome r of file.rm()
rm_matching_body(n, r, result) ==
    IF n.item.tag # "ok"
    THEN [fs |-> fs, ls |-> n.ls, pc |-> "done", result |-> "ok"]
    ELSE IF ~r.ok
    THEN [fs |-> r.fs, ls |-> n.ls, pc |-> "done", result |-> "err"]
    ELSE [fs |-> r.fs, ls |-> n.ls, pc |-> "loop", result |-> result]

\* file.rm() on the item the filtered walker gave
rm_item(n) == rm(fs, n.item.path)

\* rm_matching, lines 179-181 and 185: one iteration of the for loop
rm_matching_step(n, result) == rm_matching_body(n, rm_item(n), result)

rm_matching_iter(l, predicate, result) == rm_matching_step(filter_next(l, predicate), result)

\* the predicates given to rm_matching
NoPath == {}
AnyPath == AllPaths
Named(n) == { p \in AllPaths : p[Len(p)] = n }
Predicates == {NoPath, AnyPath} \cup { Named(n) : n \in Names }

\* -------------------------------------------------------------- extensions
\* a component is a string of characters here
ExtChars == {"a", "b", "."}
DotDot == <<".", ".">>
CurDir == <<".">>
RootDir == <<"/">>

RECURSIVE Strings(_)
Strings(n) ==
    IF n = 0 THEN { <<>> }
    ELSE LET shorter == Strings(n - 1)
         IN shorter \cup { Append(w, c) : w \in { v \in shorter : Len(v) = n - 1 }, c \in ExtChars }

\* the paths asked about: the empty path, the root, "." and "..", and one
\* file name
ExtPaths == { <<>>, <<RootDir>> } \cup { <<w>> : w \in Strings(MaxName) \ { <<>> } }

\* Utf8Path::file_name: the last component when it is a normal one
file_name(p) ==
    IF p = <<>> \/ p[Len(p)] \in {RootDir, CurDir, DotDot}
    THEN [some |-> FALSE, val |-> <<>>]
    ELSE [some |-> TRUE, val |-> p[Len(p)]]

HasDot(w) == \E i \in 1..Len(w) : w[i] = "."

FirstDot(w) == CHOOSE i \in 1..Len(w) : w[i] = "." /\ \A j \in 1..(i - 1) : w[j] # "."

\* str::split('.'): the pieces between the dots, empty ones included
RECURSIVE split(_)
split(w) ==
    IF ~HasDot(w) THEN << w >>
    ELSE << SubSeq(w, 1, FirstDot(w) - 1) >> \o split(SubSeq(w, FirstDot(w) + 1, Len(w)))

\* str::split_once('.')
split_once(w) ==
    IF ~HasDot(w) THEN [some |-> FALSE, before |-> <<>>, after |-> <<>>]
    ELSE [some |-> TRUE, before |-> SubSeq(w, 1, FirstDot(w) - 1),
          after |-> SubSeq(w, FirstDot(w) + 1, Len(w))]

\* Iterator::take
take(q, n) == SubSeq(q, 1, IF Len(q) < n THEN Len(q) ELSE n)

\* Utf8PathExt::extensions
extensions(p) ==
    IF file_name(p).some THEN take(split(file_name(p).val), 1) ELSE <<>>

\* Utf8PathExt::all_extensions
all_extensions(p) ==
    IF file_name(p).some /\ split_once(file_name(p).val).some
    THEN [some |-> TRUE, val |-> split_once(file_name(p).val).after]
    ELSE [some |-> FALSE, val |-> <<>>]

NotCalled == [called |-> FALSE, some |-> FALSE, val |-> <<>>]

\* ------------------------------------------------------------------- state
\* the working directories tried: the base, and a directory where the
\* relative paths of the base's entries name other entries or nothing
Cwds(f) == { IF f[p].kind = "dir" THEN p ELSE Root : p \in {Base, Base \o <<"x">>} }

\* the program either walks the base directory, or copies it to Dest, or
\* removes it, or removes what a predicate accepts in it
Init ==
    /\ extPc \in {"idle", "start"}
    /\ extPath \in (IF extPc = "start" THEN ExtPaths ELSE { <<>> })
    /\ extOut = NotCalled
    /\ extAll = NotCalled
    /\ cpPc \in (IF extPc = "idle" THEN {"idle", "start"} ELSE {"idle"})
    /\ rmOp \in (IF cpPc = "idle" /\ extPc = "idle" THEN {"none", "rm", "rm_matching"}
                 ELSE {"none"})
    /\ rmPc = (IF rmOp = "none" THEN "idle" ELSE "start")
    /\ rmPred \in (IF rmOp = "rm_matching" THEN Predicates ELSE {NoPath})
    /\ rmLs = Ls_new(Base)
    /\ rmResult = "none"
    /\ \E bk \in Kinds, t \in Trees, dk \in {"none", "dir"}, dx \in {"none", "file"} :
          /\ bk # "dir" => t = EmptyTree
          /\ cpPc = "idle" => dk = "none"
          /\ dk = "none" => dx = "none"
          /\ extPc = "start" => bk = "none"
          /\ fs = WithDestEntry(MkFs(bk, t, dk), dx)
    /\ fs0 = fs
    /\ fault \in ReadFaults(fs) \cup (IF cpPc = "start" THEN WriteFaults(fs) ELSE {})
                \cup (IF rmOp # "none" THEN RemoveFaults(fs) ELSE {})
    /\ rev \in (IF extPc = "start" THEN {FALSE} ELSE BOOLEAN)
    /\ cwd \in (IF cpPc = "start" \/ rmOp # "none" \/ extPc = "start" THEN {Root} ELSE Cwds(fs))
    /\ ls = Ls_new(Base)
    /\ it = NotMade
    /\ hist = <<>>
    /\ calls = {}
    /\ cpEntries = <<>>
    /\ cpResult = "none"
    /\ cpLog = <<>>
    /\ cpRun = 0

\* the options are set before the first pull and before try_iter
Building == hist = <<>> /\ ~it.made /\ cpPc = "idle" /\ rmPc = "idle" /\ extPc = "idle"

Env == <<fs, cwd, rev, fault>>
CpVars == <<cpPc, cpEntries, cpResult, cpLog, cpRun>>
RmVars == <<fs0, rmOp, rmPc, rmPred, rmLs, rmResult>>
ExtVars == <<extPc, extPath, extOut, extAll>>
OtherVars == <<RmVars, ExtVars>>

\* Ls::relative_paths
relative_paths ==
    /\ Building
    /\ ls' = [ls EXCEPT !.relative_paths = TRUE]
    /\ UNCHANGED <<Env, it, hist, calls, CpVars, OtherVars>>

\* Ls::recurse_if
recurse_if(predicate) ==
    /\ Building
    /\ ls' = [ls EXCEPT !.recurse_if_fn = predicate]
    /\ UNCHANGED <<Env, it, hist, calls, CpVars, OtherVars>>

\* Ls::recurse
recurse ==
    /\ Building
    /\ ls' = [ls EXCEPT !.recurse_if_fn = Always]
    /\ UNCHANGED <<Env, it, hist, calls, CpVars, OtherVars>>

\* Ls::files
files ==
    /\ Building
    /\ ls' = [ls EXCEPT !.filter = "Files"]
    /\ UNCHANGED <<Env, it, hist, calls, CpVars, OtherVars>>

\* Ls::dirs
dirs ==
    /\ Building
    /\ ls' = [ls EXCEPT !.filter = "Dirs"]
    /\ UNCHANGED <<Env, it, hist, calls, CpVars, OtherVars>>

\* Ls::try_iter
try_iter ==
    /\ Building
    /\ it' = TryLsIter_new
    /\ UNCHANGED <<Env, ls, hist, calls, CpVars, OtherVars>>

\* the pulls that did not return a path
Ends == Cardinality({ i \in 1..Len(hist) : hist[i].tag # "ok" })

CanPull ==
    /\ cpPc = "idle"
    /\ rmPc = "idle"
    /\ extPc = "idle"
    /\ Ends < MaxEnds
    /\ \A i \in 1..Len(hist) : hist[i].tag # "panic"

\* a pull of the best-effort walker
PullLs ==
    /\ CanPull
    /\ ~it.made
    /\ LET r == Ls_next(ls)
       IN /\ ls' = r.ls
          /\ hist' = Append(hist, r.item)
          /\ calls' = calls \cup r.calls
    /\ UNCHANGED <<Env, it, CpVars, OtherVars>>

\* a pull of the fallible walker
PullTry ==
    /\ CanPull
    /\ it.made
    /\ LET r == TryLsIter_next(ls, it)
       IN /\ it' = r.it
          /\ hist' = Append(hist, r.item)
          /\ calls' = calls \cup r.calls
    /\ UNCHANGED <<Env, ls, CpVars, OtherVars>>

\* the effect r of a part of cp becomes the state; log is what cp has done
\* before
CpReturn(r, log) ==
    /\ fs' = r.fs
    /\ cpEntries' = r.entries
    /\ cpPc' = r.pc
    /\ cpResult' = r.result
    /\ cpLog' = log \o r.log

\* cp of the base directory to the destination: up to the loop
CpBegin ==
    /\ cpPc = "start"
    /\ CpReturn(cp_start(Base, Dest), <<>>)
    /\ cpRun' = 1
    /\ UNCHANGED <<cwd, rev, fault, ls, it, hist, calls, OtherVars>>

\* the same cp called again after it has returned Ok
CpAgain ==
    /\ cpPc = "done"
    /\ cpResult = "ok"
    /\ cpRun = 1
    /\ CpReturn(cp_start(Base, Dest), <<>>)
    /\ cpRun' = 2
    /\ UNCHANGED <<cwd, rev, fault, ls, it, hist, calls, OtherVars>>

\* cp: one iteration of the loop
CpStep ==
    /\ cpPc = "loop"
    /\ CpReturn(cp_iter(Base, Dest, cpEntries), cpLog)
    /\ UNCHANGED <<cwd, rev, fault, ls, it, hist, calls, cpRun, OtherVars>>

Walker == <<ls, it, hist, calls>>

\* the removal's effect r becomes the state
RmReturn(r) ==
    /\ fs' = r.fs
    /\ rmLs' = r.ls
    /\ rmPc' = r.pc
    /\ rmResult' = r.result

\* rm of the base path
RmCall ==
    /\ rmOp = "rm"
    /\ rmPc = "start"
    /\ LET r == rm(fs, Base)
       IN /\ fs' = r.fs
          /\ rmResult' = (IF r.ok THEN "ok" ELSE "err")
    /\ rmPc' = "done"
    /\ UNCHANGED <<cwd, rev, fault, Walker, CpVars, fs0, rmOp, rmPred, rmLs, ExtVars>>

\* rm_matching of the base path: up to the loop
RmMatchingBegin ==
    /\ rmOp = "rm_matching"
    /\ rmPc = "start"
    /\ RmReturn(rm_matching_start(Base, rmPred))
    /\ UNCHANGED <<cwd, rev, fault, Walker, CpVars, fs0, rmOp, rmPred, ExtVars>>

\* rm_matching: one iteration of the loop
RmMatchingStep ==
    /\ rmOp = "rm_matching"
    /\ rmPc = "loop"
    /\ RmReturn(rm_matching_iter(rmLs, rmPred, rmResult))
    /\ UNCHANGED <<cwd, rev, fault, Walker, CpVars, fs0, rmOp, rmPred, ExtVars>>

\* extensions() of the path asked about
Extensions ==
    /\ extPc = "start"
    /\ ~extOut.called
    /\ extOut' = [called |-> TRUE, some |-> TRUE, val |-> extensions(extPath)]
    /\ UNCHANGED <<Env, Walker, CpVars, RmVars, extPc, extPath, extAll>>

\* all_extensions() of the path asked about
AllExtensions ==
    /\ extPc = "start"
    /\ ~extAll.called
    /\ extAll' = [called |-> TRUE, some |-> all_extensions(extPath).some,
                  val |-> all_extensions(extPath).val]
    /\ UNCHANGED <<Env, Walker, CpVars, RmVars, extPc, extPath, extOut>>

Next ==
    \/ relative_paths
    \/ \E p \in {OnlyX} : recurse_if(p)
    \/ recurse
    \/ files
    \/ dirs
    \/ try_iter
    \/ PullLs
    \/ PullTry
    \/ CpBegin
    \/ CpStep
    \/ CpAgain
    \/ RmCall
    \/ RmMatchingBegin
    \/ RmMatchingStep
    \/ Extensions
    \/ AllExtensions

Spec == Init /\ [][Next]_vars

TypeOK ==
    /\ ls.filter \in {"All", "Files", "Dirs"}
    /\ cpPc \in {"idle", "start", "loop", "done"}
    /\ cpResult \in {"none", "ok", "err", "panic"}
    /\ rmPc \in {"idle", "start", "loop", "done"}
    /\ rmResult \in {"none", "ok", "err"}

\* ------------------------------------------------------------- vocabulary
Range(q) == { q[i] : i \in 1..Len(q) }

NoDup(q) == \A i, j \in 1..Len(q) : q[i] = q[j] => i = j

IsOk(o) == o.tag = "ok"

\* the paths yielded so far, in order
OkItems == SelectSeq(hist, IsOk)

\* the yielded paths, each joined with the base when the walker gives
\* relative paths
YieldedAbs ==
    [i \in 1..Len(OkItems) |->
        IF ls.relative_paths THEN join(Base, OkItems[i].path) ELSE OkItems[i].path]

\* the entries strictly beneath the base
TreeEntries == { p \in SrcAbs : fs[p].kind # "none" }

RelOf(p) == strip_prefix(p, Base).path

StrictlyBeneath(p, d) == IsPrefix(d, p) /\ p # d

\* the best-effort walker has returned end-of-sequence
Exhausted == ~it.made /\ cpPc = "idle" /\ rmPc = "idle" /\ hist # <<>> /\ hist[Len(hist)].tag = "none"

NoListingFails == fault.kind \notin {"list", "entry"} /\ fs[Base].kind = "dir"

\* an entry the traversal can discover: its own directory entry reads, and
\* every directory above it up to the base lists and, beneath the base, is
\* itself discovered and accepted by the recursion predicate
RECURSIVE Reachable(_)
Reachable(p) ==
    /\ p \in TreeEntries
    /\ fault # [kind |-> "entry", at |-> p]
    /\ fault # [kind |-> "list", at |-> Parent(p)]
    /\ \/ Parent(p) = Base
       \/ Reachable(Parent(p)) /\ RelOf(Parent(p)) \in ls.recurse_if_fn

\* the index of the first pull that did not return a path, 0 when none
FirstEnd ==
    IF \A i \in 1..Len(hist) : hist[i].tag = "ok" THEN 0
    ELSE CHOOSE i \in 1..Len(hist) :
            hist[i].tag # "ok" /\ \A j \in 1..(i - 1) : hist[j].tag = "ok"

\* ------------------------------------------------------------------ claims

\* C1: when no listing fails, the fallible walker pulled until its first
\* end-of-sequence has yielded exactly the sequence of paths that the
\* best-effort walker of the same configuration yields.
C1_TryYieldsWhatLsYields ==
    (it.made /\ NoListingFails /\ FirstEnd # 0)
        => /\ hist[FirstEnd].tag = "none"
           /\ [i \in 1..(FirstEnd - 1) |-> hist[i].path] = Ls_collect(ls)

\* C2: after a pull of the fallible walker has returned an error, every later
\* pull returns end-of-sequence.
C2_OneTerminalError ==
    it.made => \A i, j \in 1..Len(hist) :
                  (i < j /\ hist[i].tag = "err") => hist[j].tag = "none"

\* C3: on a fully readable tree the best-effort walker with recurse() and
\* the default filter, pulled to exhaustion, has yielded every entry
\* strictly beneath the base exactly once, and never the base.
C3_FullRecursion ==
    (Exhausted /\ ls.recurse_if_fn = Always /\ ls.filter = "All" /\ NoListingFails)
        => /\ NoDup(YieldedAbs)
           /\ Range(YieldedAbs) = TreeEntries
           /\ Base \notin Range(YieldedAbs)
           /\ Len(OkItems) = Cardinality(TreeEntries)

C3_Witness ==
    /\ Exhausted /\ ls.recurse_if_fn = Always /\ ls.filter = "All" /\ NoListingFails
    /\ Len(OkItems) = 3
    /\ \E p \in Range(YieldedAbs) : Len(p) = Len(Base) + 3
    /\ \E p \in Range(YieldedAbs) : fs[p].kind = "file"

\* a directory beneath the base that the recursion predicate rejects
Excluded(d) == d \in TreeEntries /\ fs[d].kind = "dir" /\ RelOf(d) \notin ls.recurse_if_fn

\* C4: no path that either walker yields (under any filter and path form)
\* lies strictly beneath a directory the predicate rejects; the best-effort
\* walker pulled to exhaustion has yielded each discovered rejected
\* directory itself when the filter lets directories through; and with the
\* default configuration and a readable base it has yielded exactly the
\* immediate children of the base.
C4_SelectiveRecursion ==
    /\ \A i \in 1..Len(OkItems) : \A d \in TreeEntries :
          StrictlyBeneath(YieldedAbs[i], d) => ~Excluded(d)
    /\ (Exhausted /\ (ls.filter = "All" \/ (ls.filter = "Dirs" /\ ~ls.relative_paths)))
          => \A d \in TreeEntries : (Excluded(d) /\ Reachable(d)) => d \in Range(YieldedAbs)
    /\ (Exhausted /\ ls.recurse_if_fn = Never /\ ls.filter = "All" /\ NoListingFails)
          => Range(YieldedAbs) = { p \in TreeEntries : Parent(p) = Base }

C4_Witness ==
    /\ Exhausted /\ ls.recurse_if_fn = OnlyX
    /\ \E d \in TreeEntries :
          /\ Excluded(d) /\ d \in Range(YieldedAbs)
          /\ \E c \in TreeEntries : Parent(c) = d
          /\ Parent(d) # Base

\* C5: the best-effort walker with absolute paths and recurse(), pulled to
\* exhaustion, has yielded with files() exactly the files and with dirs()
\* exactly the directories that the traversal can discover at any depth
\* (all of them when every listing succeeds): a directory that files()
\* rejects is still expanded.
C5_FilterIndependence ==
    (Exhausted /\ ~ls.relative_paths /\ ls.recurse_if_fn = Always)
        => /\ ls.filter = "Files"
                => Range(YieldedAbs) = { p \in TreeEntries : Reachable(p) /\ fs[p].kind = "file" }
           /\ ls.filter = "Dirs"
                => Range(YieldedAbs) = { p \in TreeEntries : Reachable(p) /\ fs[p].kind = "dir" }
           /\ NoListingFails => \A p \in TreeEntries : Reachable(p)

C5_Witness ==
    /\ Exhausted /\ ~ls.relative_paths /\ ls.recurse_if_fn = Always /\ ls.filter = "Files"
    /\ NoListingFails
    /\ \E p \in Range(YieldedAbs) : Len(p) = Len(Base) + 3

\* C6: with relative_paths() every path a walker yields is relative, and
\* the base joined with it is the absolute path of the discovered entry it
\* was made from.
C6_RelativePaths ==
    ls.relative_paths
        => \A i \in 1..Len(hist) :
              hist[i].tag = "ok"
                 => /\ ~IsAbsolute(hist[i].path)
                    /\ hist[i].path # <<>>
                    /\ join(Base, hist[i].path) = hist[i].entry
                    /\ Reachable(hist[i].entry)

C6_Witness ==
    /\ ls.relative_paths
    /\ \E i \in 1..Len(hist) : hist[i].tag = "ok" /\ Len(hist[i].path) = 3
    /\ \E i \in 1..Len(hist) : hist[i].tag = "ok" /\ Len(hist[i].path) = 1

\* C7: every invocation of the recursion predicate, in both walkers and
\* both path forms, is for a directory entry and passes that entry's path
\* relative to the base.
C7_PredicateArguments ==
    \A c \in calls :
        /\ fs[c.entry].kind = "dir"
        /\ ~IsAbsolute(c.arg)
        /\ join(Base, c.arg) = c.entry

C7_Witness ==
    /\ ~ls.relative_paths
    /\ \E c \in calls : Len(c.arg) = 2
    /\ \E i \in 1..Len(hist) : hist[i].tag = "ok" /\ fs[hist[i].entry].kind = "file"

\* C8: when the listing of one subdirectory fails, the best-effort walker
\* with recurse() and the default filter, pulled to exhaustion, has
\* returned no error and has yielded, each once, exactly the entries that
\* are not strictly beneath that directory, the directory itself included.
C8_BestEffort ==
    (Exhausted /\ ls.recurse_if_fn = Always /\ ls.filter = "All"
       /\ fault.kind = "list" /\ fault.at # Base)
        => /\ \A i \in 1..Len(hist) : hist[i].tag \in {"ok", "none"}
           /\ NoDup(YieldedAbs)
           /\ Range(YieldedAbs) = { p \in TreeEntries : ~StrictlyBeneath(p, fault.at) }
           /\ fault.at \in Range(YieldedAbs)

C8_Witness ==
    /\ Exhausted /\ ls.recurse_if_fn = Always /\ ls.filter = "All"
    /\ fault.kind = "list" /\ fault.at # Base
    /\ \E c \in TreeEntries : StrictlyBeneath(c, fault.at)
    /\ \E i \in 1..Len(OkItems) :
          /\ YieldedAbs[i] = fault.at
          /\ i < Len(OkItems)

\* C9: with a base that does not exist or is not a directory, every pull of
\* the best-effort walker returns end-of-sequence, and the first pull of the
\* fallible walker returns an error after which every pull returns
\* end-of-sequence.
C9_BadBase ==
    (fs[Base].kind # "dir" /\ cpPc = "idle")
        => /\ ~it.made => \A i \in 1..Len(hist) : hist[i].tag = "none"
           /\ it.made => \A i \in 1..Len(hist) :
                            hist[i].tag = (IF i = 1 THEN "err" ELSE "none")

\* C10: cp returns Ok only when none of its steps (a listing in the source
\* tree, a directory creation, a file copy) has failed.
C10_CpFailFast ==
    cpResult = "ok" => \A i \in 1..Len(cpLog) : cpLog[i].ok

\* C11: after cp of the base directory has returned Ok, every entry of
\* the source is at the same relative path of the destination with the same
\* type and content; and the same cp called again returns Ok.
C11_CopyFidelity ==
    /\ (cpPc = "done" /\ cpResult = "ok" /\ fs[Base].kind = "dir")
          => \A r \in SrcRel : fs[Base \o r].kind # "none" => fs[Dest \o r] = fs[Base \o r]
    /\ (cpPc = "done" /\ cpRun = 2) => cpResult = "ok"

\* the immediate entries of the base at the start
Children0 == { p \in SrcAbs : fs0[p].kind # "none" /\ Parent(p) = Base }

\* an immediate entry that the listing of the base returns
Listed(c) ==
    /\ c \in Children0
    /\ fault # [kind |-> "list", at |-> Base]
    /\ fault # [kind |-> "entry", at |-> c]

RmMatchingOnDir == rmOp = "rm_matching" /\ fs0[Base].kind = "dir"

ListIndex(c) == CHOOSE i \in 1..Len(ListOrder) : ListOrder[i] = c[Len(c)]

\* C13: when rm_matching on a directory has returned an error, it was the
\* removal of a matching entry that failed; that entry and every matching
\* entry after it in the listing are as they were, and every listed
\* matching entry before it is gone.
C13_RemovalFailFast ==
    (RmMatchingOnDir /\ rmPc = "done" /\ rmResult = "err")
        => /\ fault.kind = "remove"
           /\ fault.at \in Children0 /\ fault.at \in rmPred
           /\ \A c \in Children0 :
                 /\ (c \in rmPred /\ ListIndex(c) >= ListIndex(fault.at))
                       => \A q \in AllPaths : IsPrefix(c, q) => fs[q] = fs0[q]
                 /\ (c \in rmPred /\ Listed(c) /\ ListIndex(c) < ListIndex(fault.at))
                       => fs[c] = NoNode

C13_Witness ==
    /\ RmMatchingOnDir /\ rmPc = "done" /\ rmResult = "err"
    /\ \E c \in Children0 :
          c \in rmPred /\ ListIndex(c) > ListIndex(fault.at) /\ fs[c].kind # "none"

\* C14: rm of a path that does not exist returns Ok and changes nothing;
\* rm_matching of a path that is not a directory and that the predicate
\* rejects returns Ok and changes nothing.
C14_RemovalNoOp ==
    /\ (rmOp = "rm" /\ rmPc = "done" /\ fs0[Base].kind = "none")
          => rmResult = "ok" /\ fs = fs0
    /\ (rmOp = "rm_matching" /\ rmPc = "done" /\ fs0[Base].kind # "dir" /\ Base \notin rmPred)
          => rmResult = "ok" /\ fs = fs0

C14_Witness ==
    /\ rmOp = "rm" /\ rmPc = "done" /\ fs0[Base].kind = "none"
    /\ rmResult = "ok"

\* C15: over a tree that does not change a walker returns end-of-sequence
\* after finitely many pulls, so no pull may return a path or an error and
\* leave the walker in the state it was in: the same pull would then repeat
\* for ever.
C15_PullsMakeProgress ==
    [][ (PullLs \/ PullTry)
           => \/ hist'[Len(hist')].tag = "none"
              \/ <<ls', it'>> # <<ls, it>> ]_vars

\* C16: extensions() yields the dot-separated parts of the file name after
\* the first dot (the parts of what all_extensions() returns), nothing when
\* the file name has no dot, and nothing when the path has no file name.
C16_Extensions ==
    /\ extOut.called
          => extOut.val = (IF file_name(extPath).some /\ HasDot(file_name(extPath).val)
                           THEN Tail(split(file_name(extPath).val))
                           ELSE <<>>)
    /\ (extOut.called /\ extAll.called)
          => extOut.val = (IF extAll.some THEN split(extAll.val) ELSE <<>>)

\* the entries the best-effort walker has dequeued and yielded, followed by
\* the entries still queued
Order == [i \in 1..Len(OkItems) |-> OkItems[i].entry] \o ls.entries

\* the place in Order of the directory whose expansion enqueued p, 0 for the
\* base
EnqueuedBy(p) ==
    IF Parent(p) = Base THEN 0
    ELSE CHOOSE i \in 1..Len(Order) : Order[i] = Parent(p)

\* C17: the best-effort walker with the default filter yields entries in
\* the order they were enqueued: a pull leaves the order of the yielded and
\* queued entries as it was and appends only children of the directory it
\* expanded (of the base on the first pull) behind them, so the children of
\* a directory expanded earlier stand before those of one expanded later,
\* and every yielded directory comes before each of its yielded descendants.
C17_FifoOrder ==
    /\ [](( ~it.made /\ ls.filter = "All")
            => \A i, j \in 1..Len(OkItems) :
                  StrictlyBeneath(OkItems[j].entry, OkItems[i].entry) => i < j)
    /\ [](( ~it.made /\ ls.filter = "All")
            => \A i, j \in 1..Len(Order) :
                  /\ Parent(Order[i]) # Base => \E k \in 1..Len(OkItems) : OkItems[k].entry = Parent(Order[i])
                  /\ i < j => EnqueuedBy(Order[i]) <= EnqueuedBy(Order[j]))
    /\ [][ (PullLs /\ ls.filter = "All")
              => /\ IsPrefix(Order, Order')
                 /\ \A k \in (Len(Order) + 1)..Len(Order') :
                       Parent(Order'[k]) \in
                          ({hist'[Len(hist')].entry}
                              \cup (IF ls.initialized THEN {} ELSE {Base}))
                 /\ hist'[Len(hist')].tag = "ok"
                       => hist'[Len(hist')].entry = Order'[Len(OkItems')] ]_vars

C17_Witness ==
    /\ Exhausted /\ ls.filter = "All"
    /\ Len(OkItems) = 3
    /\ Parent(OkItems[1].entry) = Base
    /\ Parent(OkItems[2].entry) = Base
    /\ Parent(OkItems[3].entry) = OkItems[1].entry

\* the walker of the same configuration that gives absolute paths, not yet
\* pulled
AbsoluteTwin == [ls EXCEPT !.relative_paths = FALSE, !.initialized = FALSE, !.entries = <<>>]

\* C18: the filter decision depends neither on the path form nor on the
\* current directory: every path a walker with files() (dirs()) yields names
\* a file (directory) under the base, and the best-effort walker with
\* relative_paths() pulled to exhaustion has yielded exactly the paths its
\* absolute-path twin yields, with the base prefix stripped.
C18_FilterIgnoresPathForm ==
    /\ \A i \in 1..Len(OkItems) :
          /\ ls.filter = "Files" => fs[YieldedAbs[i]].kind = "file"
          /\ ls.filter = "Dirs" => fs[YieldedAbs[i]].kind = "dir"
    /\ (Exhausted /\ ls.relative_paths /\ ls.filter # "All")
          => YieldedAbs = Ls_collect(AbsoluteTwin)

\* every path of the queue is the base extended by at least one component
QueueBeneath(q, base) == \A i \in 1..Len(q) : StrictlyBeneath(q[i], base)

\* C19: every path in the pending queue of a walker of either variant, and
\* in the work queue of cp, is the base (source) path extended by at least
\* one component, and no strip_prefix(base).unwrap() has panicked.
C19_QueuePrefix ==
    /\ QueueBeneath(ls.entries, ls.path)
    /\ QueueBeneath(it.entries, ls.path)
    /\ QueueBeneath(rmLs.entries, rmLs.path)
    /\ QueueBeneath(cpEntries, Base)
    /\ \A i \in 1..Len(hist) : hist[i].tag # "panic"
    /\ cpResult # "panic"

C19_Witness ==
    /\ Len(OkItems) >= 2
    /\ \E i \in 1..Len(ls.entries) : Len(ls.entries[i]) = Len(Base) + 3
    /\ QueueBeneath(ls.entries, ls.path)

\* where cp puts the source entry p
DestOf(p) == join(Dest, RelOf(p))

\* C20: while cp copies a directory, the parent of the destination path of
\* every source entry waiting to be processed is an existing directory, and
\* no directory creation or file copy of cp has failed at a path whose parent
\* is not a directory.
C20_ParentBeforeChild ==
    /\ cpPc = "loop"
          => \A i \in 1..Len(cpEntries) : fs[Parent(DestOf(cpEntries[i]))].kind = "dir"
    /\ \A i \in 1..Len(cpLog) :
          (cpLog[i].op \in {"mkdir", "copy"} /\ ~cpLog[i].ok /\ fs0[Base].kind = "dir")
              => fs[Parent(cpLog[i].path)].kind = "dir"

====
